---- MODULE Spec2Model ----
(***************************************************************************)
(* A model of the timetable engine of MJN035/minmin:                       *)
(*   data_loader.py  parse_time_slot, get_all_time_slots,                  *)
(*                   check_time_conflict                                   *)
(*   scheduler.py    generate_schedules, calculate_schedule_score,         *)
(*                   recommend_schedule                                    *)
(*                                                                         *)
(* Modelling conventions                                                   *)
(*   - an optional cell of a course record (a pandas value that may be     *)
(*     NaN, or a key that may be missing) is a sequence of length 0 or 1:  *)
(*     <<>> is NaN / missing, <<v>> is the value v;                        *)
(*   - a Python str is the sequence of its characters; only decimal digits *)
(*     occur, so a character is its digit value and the order of the       *)
(*     characters is the order of the digits;                              *)
(*   - the '수업교시' cell is the sequence of its '/'-separated parts; a   *)
(*     part the regular expression of parse_time_slot does not match has   *)
(*     ok = FALSE; NaN and '' are the empty sequence of parts;             *)
(*   - a time slot is the tuple <<day, start, end>> of parse_time_slot;    *)
(*   - scores are floats in the code and every value they take is a whole  *)
(*     number; they are integers here.                                     *)
(***************************************************************************)
EXTENDS Integers, Sequences, FiniteSets, Bags

VARIABLES
    courses_list,        \* generate_schedules: the pool, shuffled in place
    max_credits,         \* generate_schedules: max_credits / the configured maximum
    max_schedules,       \* generate_schedules: max_schedules
    attempts,            \* generate_schedules: attempts
    schedules,           \* generate_schedules: the result list / the list given to recommend_schedule
    schedule,            \* generate_schedules: the schedule under construction
    total_credits,       \* generate_schedules: total_credits
    i,                   \* generate_schedules: position of the for loop in courses_list
    pc,                  \* control position
    course1,             \* check_time_conflict: first argument
    course2,             \* check_time_conflict: second argument
    conflict,            \* check_time_conflict: <<>> before the call, <<result>> after it
    preferred_free_day,  \* scoring preference; "" is None
    prefer_consecutive,  \* scoring preference
    scored,              \* calculate_schedule_score: <<>> or <<[k, score]>> for schedules[k]
    recommended,         \* recommend_schedule: <<>> or <<[best_schedule, best_score]>>
    alternatives         \* app.py: <<>> or the alternatives shown, each [schedule, score]

vars == <<courses_list, max_credits, max_schedules, attempts, schedules, schedule,
          total_credits, i, pc, course1, course2, conflict,
          preferred_free_day, prefer_consecutive, scored, recommended, alternatives>>

genVars   == <<courses_list, max_credits, max_schedules, attempts, schedules, schedule,
               total_credits, i>>
pairVars  == <<course1, course2, conflict>>
scoreVars == <<preferred_free_day, prefer_consecutive, scored, recommended, alternatives>>

----------------------------------------------------------------------------
(* Bounds of the model *)

\* the largest pool handed to generate_schedules
MaxPool == 2
\* the largest max_schedules
MaxSchedules == 2
\* the largest max_credits handed to generate_schedules
MaxBudget == 2
\* the most parts in the '수업교시' cell of an argument of check_time_conflict
MaxSlots == 2
\* the longest list handed to recommend_schedule
MaxList == 2

(* Program constants *)

\* max_attempts = max_schedules * 10
AttemptFactor == 10
\* start_hour * 60 + start_min
MinutesPerHour == 60
\* if 15 <= total_credits <= 21: score += 10
UpperBandLow == 15
UpperBandHigh == 21
UpperBandReward == 10
\* elif 12 <= total_credits < 15: score += 7
LowerBandLow == 12
LowerBandReward == 7
\* elif total_credits > 21: score -= 5
OverloadPenalty == 5
\* score += 15 when the preferred free day is free
FreeDayBonus == 15
\* score += 5 for each back-to-back pair
ConsecutiveBonus == 5
\* if time_variance > 300: score += 3
SpreadThreshold == 300
SpreadBonus == 3
\* app.py: num_alternatives = min(5, len(schedules) - 1)
MaxAlternatives == 5

----------------------------------------------------------------------------
(* Course records *)

Part(day, sh, sm, eh, em) ==
    [ok |-> TRUE, day |-> day, sh |-> sh, sm |-> sm, eh |-> eh, em |-> em]

\* a part of '수업교시' that re.match rejects
BadPart == [ok |-> FALSE, day |-> "", sh |-> 0, sm |-> 0, eh |-> 0, em |-> 0]

Course(code, section, credits, time) ==
    [code |-> code, section |-> section, credits |-> credits, time |-> time]

----------------------------------------------------------------------------
(* data_loader.py *)

RECURSIVE parse_time_slot(_)
parse_time_slot(time_str) ==
    IF time_str = <<>> THEN <<>>
    ELSE LET part == Head(time_str)
             rest == parse_time_slot(Tail(time_str))
         IN  IF part.ok
             THEN <<  <<part.day,
                        part.sh * MinutesPerHour + part.sm,
                        part.eh * MinutesPerHour + part.em>>  >> \o rest
             ELSE rest

get_all_time_slots(course) == parse_time_slot(course.time)

\* wrong on purpose: touching intervals count as overlapping
overlaps_touching(slot1, slot2) ==
    /\ slot1[1] = slot2[1]
    /\ ~(slot1[3] < slot2[2] \/ slot2[3] < slot1[2])

\* wrong on purpose: only one of the two orders is tested
overlaps_one_sided(slot1, slot2) ==
    /\ slot1[1] = slot2[1]
    /\ ~(slot1[3] <= slot2[2])

\* the test of the inner loop body: day1 == day2 and not (end1 <= start2 or end2 <= start1)
overlaps(slot1, slot2) ==
    /\ slot1[1] = slot2[1]
    /\ ~(slot1[3] <= slot2[2] \/ slot2[3] <= slot1[2])

\* the two nested loops, from position <<a, b>>, returning at the first hit
RECURSIVE conflict_from(_, _, _, _)
conflict_from(slots1, slots2, a, b) ==
    IF a > Len(slots1) THEN FALSE
    ELSE IF b > Len(slots2) THEN conflict_from(slots1, slots2, a + 1, 1)
    ELSE IF overlaps(slots1[a], slots2[b]) THEN TRUE
    ELSE conflict_from(slots1, slots2, a, b + 1)

\* wrong on purpose: a course without slots is taken to conflict with everything
check_time_conflict_empty_conflicts(c1, c2) ==
    \/ get_all_time_slots(c1) = <<>>
    \/ get_all_time_slots(c2) = <<>>
    \/ conflict_from(get_all_time_slots(c1), get_all_time_slots(c2), 1, 1)

check_time_conflict(c1, c2) ==
    conflict_from(get_all_time_slots(c1), get_all_time_slots(c2), 1, 1)

----------------------------------------------------------------------------
(* scheduler.py: generate_schedules *)

\* int(course['학점']) if pd.notna(course['학점']) else 0
course_credits(course) == IF course.credits # <<>> THEN course.credits[1] ELSE 0

\* wrong on purpose: the candidate's own credits are left out of the test
over_budget_ignoring_course(total, course, budget) == total > budget

\* wrong on purpose: a guard that was meant to reject a budget that is not positive
over_budget_positive_only(total, course, budget) ==
    budget > 0 /\ total + course_credits(course) > budget

\* wrong on purpose: a course that fills the budget exactly is turned away
over_budget_or_equal(total, course, budget) == total + course_credits(course) >= budget

\* total_credits + course_credits > max_credits
over_budget(total, course, budget) == total + course_credits(course) > budget

\* wrong on purpose: the first accepted course is never tested
conflicts_skipping_first(course, sched) ==
    \E k \in 2..Len(sched) : check_time_conflict(course, sched[k])

\* the loop over the accepted courses: the candidate conflicts with one of them
RECURSIVE conflicts_with_schedule(_, _)
conflicts_with_schedule(course, sched) ==
    IF sched = <<>> THEN FALSE
    ELSE IF check_time_conflict(course, Head(sched)) THEN TRUE
    ELSE conflicts_with_schedule(course, Tail(sched))

\* str() of a non-negative integer, most significant digit first
RECURSIVE digits(_)
digits(n) == IF n < 10 THEN <<n>> ELSE Append(digits(n \div 10), n % 10)

\* str(c.get(key, '')): '' for a missing key
str_of(cell) == IF cell = <<>> THEN <<>> ELSE digits(cell[1])

\* Python's < on str
RECURSIVE str_lt(_, _)
str_lt(s, t) ==
    IF t = <<>> THEN FALSE
    ELSE IF s = <<>> THEN TRUE
    ELSE IF Head(s) # Head(t) THEN Head(s) < Head(t)
    ELSE str_lt(Tail(s), Tail(t))

\* Python's < on the (code, section) tuples
pair_lt(p, q) == str_lt(p[1], q[1]) \/ (p[1] = q[1] /\ str_lt(p[2], q[2]))

RECURSIVE insert_pair(_, _)
insert_pair(p, s) ==
    IF s = <<>> THEN <<p>>
    ELSE IF pair_lt(Head(s), p) \/ Head(s) = p THEN <<Head(s)>> \o insert_pair(p, Tail(s))
    ELSE <<p>> \o s

\* sorted() of a list of (code, section) tuples
RECURSIVE sorted_pairs(_)
sorted_pairs(s) == IF s = <<>> THEN <<>> ELSE insert_pair(Head(s), sorted_pairs(Tail(s)))

\* [(str(c.get('교과목번호', '')), str(c.get('강좌번호', ''))) for c in schedule]
identity_pairs(sched) ==
    [k \in 1..Len(sched) |-> <<str_of(sched[k].code), str_of(sched[k].section)>>]

\* wrong on purpose: the key is not sorted
schedule_key_unsorted(sched) == identity_pairs(sched)

\* tuple(sorted([...]))
schedule_key(sched) == sorted_pairs(identity_pairs(sched))

\* existing_keys
existing_keys(scheds) == {schedule_key(scheds[k]) : k \in 1..Len(scheds)}

\* wrong on purpose: one attempt too many
max_attempts_one_more == max_schedules * AttemptFactor + 1

max_attempts == max_schedules * AttemptFactor

\* the condition of the while loop
loop_guard == Len(schedules) < max_schedules /\ attempts < max_attempts

\* the orders random.shuffle can leave a list of n entries in
shuffle_orders(n) == {p \in [1..n -> 1..n] : \A a, b \in 1..n : p[a] = p[b] => a = b}

\* one iteration of the while loop begins: attempts += 1, shuffle, empty schedule
StartAttempt ==
    /\ pc = "loop"
    /\ loop_guard
    /\ attempts' = attempts + 1
    /\ \E p \in shuffle_orders(Len(courses_list)) :
           courses_list' = [k \in 1..Len(courses_list) |-> courses_list[p[k]]]
    /\ schedule' = <<>>
    /\ total_credits' = 0
    /\ i' = 1
    /\ pc' = "walk"
    /\ UNCHANGED <<max_credits, max_schedules, schedules>>
    /\ UNCHANGED pairVars
    /\ UNCHANGED scoreVars

\* one iteration of `for course in courses_list`
WalkStep ==
    /\ pc = "walk"
    /\ i <= Len(courses_list)
    /\ LET course == courses_list[i]
       IN  IF over_budget(total_credits, course, max_credits)
           THEN UNCHANGED <<schedule, total_credits>>
           ELSE IF conflicts_with_schedule(course, schedule)
           THEN UNCHANGED <<schedule, total_credits>>
           ELSE /\ schedule' = Append(schedule, course)
                /\ total_credits' = total_credits + course_credits(course)
    /\ i' = i + 1
    /\ UNCHANGED <<courses_list, max_credits, max_schedules, attempts, schedules, pc>>
    /\ UNCHANGED pairVars
    /\ UNCHANGED scoreVars

\* the for loop is over: the duplicate check and the append to schedules.
\* str() and sorted() of tuples of str raise nothing, so the except branch is dead.
FinishAttempt ==
    /\ pc = "walk"
    /\ i > Len(courses_list)
    /\ IF schedule # <<>> /\ schedule_key(schedule) \notin existing_keys(schedules)
       THEN schedules' = Append(schedules, schedule)
       ELSE UNCHANGED schedules
    /\ pc' = "loop"
    /\ UNCHANGED <<courses_list, max_credits, max_schedules, attempts, schedule,
                   total_credits, i>>
    /\ UNCHANGED pairVars
    /\ UNCHANGED scoreVars

\* the while condition is false: return schedules
Return ==
    /\ pc = "loop"
    /\ ~loop_guard
    /\ pc' = "done"
    /\ UNCHANGED genVars
    /\ UNCHANGED pairVars
    /\ UNCHANGED scoreVars

----------------------------------------------------------------------------
(* The pools generate_schedules is run on *)

Mon == "Mon"
Tue == "Tue"
Wed == "Wed"

\* A 9:00-10:30 and B 10:30-12:00 touch on Monday. D has A's Monday time and a
\* second slot, no credit value, and the code '10', which sorts between '1' and '2'.
\* E has no time at all. F overlaps B, has a part that does not parse and is worth 0
\* credits. E and F both lack the identity cells.
Catalog == <<
    Course(<<1>>,  <<1>>, <<1>>, << Part(Mon, 9, 0, 10, 30) >>),
    Course(<<2>>,  <<1>>, <<1>>, << Part(Mon, 10, 30, 12, 0) >>),
    Course(<<10>>, <<1>>, <<>>,  << Part(Mon, 9, 0, 10, 30), Part(Wed, 9, 0, 10, 0) >>),
    Course(<<>>,   <<>>,  <<2>>, << >>),
    Course(<<>>,   <<>>,  <<0>>, << BadPart, Part(Mon, 11, 0, 12, 0) >>)
>>

\* the members of a set of indices, in increasing order
RECURSIVE in_order(_)
in_order(S) ==
    IF S = {} THEN <<>>
    ELSE LET m == CHOOSE x \in S : \A y \in S : x <= y
         IN  <<m>> \o in_order(S \ {m})

Pools ==
    { [k \in 1..Cardinality(S) |-> Catalog[in_order(S)[k]]] :
        S \in {T \in SUBSET (1..Len(Catalog)) : Cardinality(T) <= MaxPool} }

NoCourse == Course(<<>>, <<>>, <<>>, <<>>)

Init ==
    /\ courses_list \in Pools
    /\ max_credits \in -1..MaxBudget
    /\ max_schedules \in 0..MaxSchedules
    /\ attempts = 0
    /\ schedules = <<>>
    /\ schedule = <<>>
    /\ total_credits = 0
    /\ i = 1
    /\ pc = "loop"
    /\ course1 = NoCourse
    /\ course2 = NoCourse
    /\ conflict = <<>>
    /\ preferred_free_day = ""
    /\ prefer_consecutive = FALSE
    /\ scored = <<>>
    /\ recommended = <<>>
    /\ alternatives = <<>>

Next == StartAttempt \/ WalkStep \/ FinishAttempt \/ Return

Spec == Init /\ [][Next]_vars

\* the loop is a plain sequential loop: a step that can be taken is taken
FairSpec == Init /\ [][Next]_vars /\ WF_vars(Next)

----------------------------------------------------------------------------
(* check_time_conflict as a function of two courses *)

Days == {Mon, Tue}

\* the times of day the arguments use, as <<hour, minute>>
TimePoints == { <<9, 0>>, <<9, 30>>, <<10, 0>> }

earlier(t, u) == t[1] < u[1] \/ (t[1] = u[1] /\ t[2] < u[2])

\* the parts that parse, all with start < end, and one that does not parse
Parts ==
    { Part(d, q[1][1], q[1][2], q[2][1], q[2][2]) :
        d \in Days, q \in {r \in TimePoints \X TimePoints : earlier(r[1], r[2])} }
    \cup {BadPart}

TimeStrings == UNION { [1..n -> Parts] : n \in 0..MaxSlots }

PairInit ==
    /\ course1 \in { Course(<<1>>, <<1>>, <<1>>, ts) : ts \in TimeStrings }
    /\ course2 \in { Course(<<2>>, <<1>>, <<1>>, ts) : ts \in TimeStrings }
    /\ conflict = <<>>
    /\ pc = "pair"
    /\ courses_list = <<>>
    /\ max_credits = 0
    /\ max_schedules = 0
    /\ attempts = 0
    /\ schedules = <<>>
    /\ schedule = <<>>
    /\ total_credits = 0
    /\ i = 1
    /\ preferred_free_day = ""
    /\ prefer_consecutive = FALSE
    /\ scored = <<>>
    /\ recommended = <<>>
    /\ alternatives = <<>>

\* the call check_time_conflict(course1, course2)
CheckConflict ==
    /\ pc = "pair"
    /\ conflict = <<>>
    /\ conflict' = <<check_time_conflict(course1, course2)>>
    /\ UNCHANGED <<course1, course2, pc>>
    /\ UNCHANGED genVars
    /\ UNCHANGED scoreVars

PairNext == CheckConflict

PairSpec == PairInit /\ [][PairNext]_vars

----------------------------------------------------------------------------
(* scheduler.py: calculate_schedule_score *)

\* sum(int(course['학점']) if pd.notna(course['학점']) else 0 for course in schedule)
RECURSIVE score_total_credits(_)
score_total_credits(sched) ==
    IF sched = <<>> THEN 0
    ELSE course_credits(Head(sched)) + score_total_credits(Tail(sched))

\* 1. the credit term
credit_term(total) ==
    IF UpperBandLow <= total /\ total <= UpperBandHigh THEN UpperBandReward
    ELSE IF LowerBandLow <= total /\ total < UpperBandLow THEN LowerBandReward
    ELSE IF total > UpperBandHigh THEN -OverloadPenalty
    ELSE 0

\* every slot of every course of the schedule, in the order the loops meet them
RECURSIVE all_slots(_)
all_slots(sched) ==
    IF sched = <<>> THEN <<>>
    ELSE get_all_time_slots(Head(sched)) \o all_slots(Tail(sched))

\* days_used
days_used(sched) == {all_slots(sched)[k][1] : k \in 1..Len(all_slots(sched))}

\* wrong on purpose: the bonus is given when the preferred day is in use
free_day_term_inverted(sched, day) ==
    IF day # "" /\ day \in days_used(sched) THEN FreeDayBonus ELSE 0

\* 2. the free-day term; "" is None, which `if preferred_free_day` skips
free_day_term(sched, day) ==
    IF day # "" /\ day \notin days_used(sched) THEN FreeDayBonus ELSE 0

\* day_schedules[day]: the (start, end) tuples of a day, in the order met
RECURSIVE day_times(_, _)
day_times(slots, day) ==
    IF slots = <<>> THEN <<>>
    ELSE IF Head(slots)[1] = day
         THEN << <<Head(slots)[2], Head(slots)[3]>> >> \o day_times(Tail(slots), day)
         ELSE day_times(Tail(slots), day)

\* Python's < on (start, end) tuples
time_lt(t, u) == t[1] < u[1] \/ (t[1] = u[1] /\ t[2] < u[2])

RECURSIVE insert_time(_, _)
insert_time(t, s) ==
    IF s = <<>> THEN <<t>>
    ELSE IF time_lt(t, Head(s)) THEN <<t>> \o s
    ELSE <<Head(s)>> \o insert_time(t, Tail(s))

\* times.sort()
RECURSIVE sorted_times(_)
sorted_times(s) == IF s = <<>> THEN <<>> ELSE insert_time(Head(s), sorted_times(Tail(s)))

\* wrong on purpose: a gap of up to ten minutes still counts as back to back
back_to_back_with_gap(times) ==
    Cardinality({k \in 1..(Len(times) - 1) :
                    times[k][2] <= times[k + 1][1] /\ times[k + 1][1] - times[k][2] <= 10})

\* the number of k with times[k][1] == times[k+1][0]
back_to_back(times) ==
    Cardinality({k \in 1..(Len(times) - 1) : times[k][2] = times[k + 1][1]})

RECURSIVE back_to_back_over_days(_, _)
back_to_back_over_days(slots, days) ==
    IF days = {} THEN 0
    ELSE LET d == CHOOSE x \in days : TRUE
         IN  back_to_back(sorted_times(day_times(slots, d)))
               + back_to_back_over_days(slots, days \ {d})

\* 3. the consecutive term
consecutive_term(sched, consecutive) ==
    IF consecutive
    THEN ConsecutiveBonus * back_to_back_over_days(all_slots(sched), days_used(sched))
    ELSE 0

\* all_times, doubled: (start + end) / 2 is a float in the code, start + end here
midpoints_doubled(sched) == {all_slots(sched)[k][2] + all_slots(sched)[k][3] : k \in 1..Len(all_slots(sched))}

set_max(S) == CHOOSE x \in S : \A y \in S : y <= x
set_min(S) == CHOOSE x \in S : \A y \in S : x <= y

\* 4. the spread term: max(all_times) - min(all_times) > 300
spread_term(sched) ==
    LET m == midpoints_doubled(sched)
    IN  IF m # {} /\ set_max(m) - set_min(m) > 2 * SpreadThreshold THEN SpreadBonus ELSE 0

calculate_schedule_score(sched, day, consecutive) ==
    IF sched = <<>> THEN 0
    ELSE credit_term(score_total_credits(sched))
           + free_day_term(sched, day)
           + consecutive_term(sched, consecutive)
           + spread_term(sched)

----------------------------------------------------------------------------
(* scheduler.py: recommend_schedule *)

\* wrong on purpose: the empty list falls through to the loop's initial values
empty_list_result_unguarded == [best_schedule |-> <<>>, best_score |-> <<>>]

\* return [], 0.0 : the empty list, not None
empty_list_result == [best_schedule |-> << <<>> >>, best_score |-> <<0>>]

\* wrong on purpose: a later schedule with an equal score replaces the best one
better_or_equal(score, best) == best.best_score = <<>> \/ score >= best.best_score[1]

\* score > best_score, where best_score starts at -inf (<<>>)
better(score, best) == best.best_score = <<>> \/ score > best.best_score[1]

\* the for loop from schedules[k] on, with the best so far
RECURSIVE scan(_, _, _, _, _)
scan(scheds, k, best, day, consecutive) ==
    IF k > Len(scheds) THEN best
    ELSE LET score == calculate_schedule_score(scheds[k], day, consecutive)
         IN  IF better(score, best)
             THEN scan(scheds, k + 1,
                       [best_schedule |-> <<scheds[k]>>, best_score |-> <<score>>],
                       day, consecutive)
             ELSE scan(scheds, k + 1, best, day, consecutive)

\* the result pair; best_schedule = <<>> is None, best_score = <<>> is -inf
recommend_schedule(scheds, day, consecutive) ==
    IF scheds = <<>> THEN empty_list_result
    ELSE scan(scheds, 1, [best_schedule |-> <<>>, best_score |-> <<>>], day, consecutive)

----------------------------------------------------------------------------
(* The lists calculate_schedule_score and recommend_schedule are run on *)

\* Q 10:30-12:00 follows P 9:00-10:30 on Monday and is met first; R starts on Monday
\* one minute after Q ends and also meets on Tuesday; S is an afternoon course on
\* Wednesday.
ScoreCatalog == <<
    Course(<<2>>, <<1>>, <<6>>, << Part(Mon, 10, 30, 12, 0) >>),
    Course(<<1>>, <<1>>, <<6>>, << Part(Mon, 9, 0, 10, 30) >>),
    Course(<<3>>, <<1>>, <<3>>, << Part(Mon, 12, 1, 13, 0), Part(Tue, 9, 0, 10, 30) >>),
    Course(<<4>>, <<1>>, <<9>>, << Part(Wed, 15, 0, 18, 0) >>)
>>

ScoreSchedules ==
    { [k \in 1..Cardinality(S) |-> ScoreCatalog[in_order(S)[k]]] :
        S \in SUBSET (1..Len(ScoreCatalog)) }

ScoreInit ==
    /\ schedules \in UNION { [1..n -> ScoreSchedules] : n \in 0..MaxList }
    /\ preferred_free_day \in {"", Mon, Tue}
    /\ prefer_consecutive \in BOOLEAN
    /\ max_credits \in {9, 21}
    /\ scored = <<>>
    /\ recommended = <<>>
    /\ alternatives = <<>>
    /\ pc = "score"
    /\ courses_list = <<>>
    /\ max_schedules = 0
    /\ attempts = 0
    /\ schedule = <<>>
    /\ total_credits = 0
    /\ i = 1
    /\ course1 = NoCourse
    /\ course2 = NoCourse
    /\ conflict = <<>>

\* the call calculate_schedule_score(schedules[k], preferred_free_day, prefer_consecutive),
\* on its own: each call is made on the inputs as given
Score ==
    /\ pc = "score"
    /\ scored = <<>>
    /\ recommended = <<>>
    /\ \E k \in 1..Len(schedules) :
          scored' = << [k |-> k,
                        score |-> calculate_schedule_score(
                                      schedules[k], preferred_free_day, prefer_consecutive)] >>
    /\ UNCHANGED <<preferred_free_day, prefer_consecutive, recommended, alternatives, pc>>
    /\ UNCHANGED genVars
    /\ UNCHANGED pairVars

\* the call recommend_schedule(schedules, preferred_free_day, prefer_consecutive)
Recommend ==
    /\ pc = "score"
    /\ scored = <<>>
    /\ recommended = <<>>
    /\ recommended' = << recommend_schedule(schedules, preferred_free_day, prefer_consecutive) >>
    /\ UNCHANGED <<preferred_free_day, prefer_consecutive, scored, alternatives, pc>>
    /\ UNCHANGED genVars
    /\ UNCHANGED pairVars

\* app.py, the result display: min(5, len(schedules) - 1)
num_alternatives == IF Len(schedules) - 1 < MaxAlternatives
                    THEN Len(schedules) - 1 ELSE MaxAlternatives

\* app.py, the result display after the call of recommend_schedule: when the
\* recommended schedule is truthy and there is more than one schedule, the
\* alternatives are schedules[1:num_alternatives+1], each with its score
ShowAlternatives ==
    /\ pc = "score"
    /\ schedules # <<>>
    /\ recommended # <<>>
    /\ recommended[1].best_schedule # <<>>
    /\ recommended[1].best_schedule[1] # <<>>
    /\ Len(schedules) > 1
    /\ alternatives = <<>>
    /\ alternatives' =
          [n \in 1..num_alternatives |->
              [schedule |-> schedules[n + 1],
               score |-> calculate_schedule_score(
                             schedules[n + 1], preferred_free_day, prefer_consecutive)]]
    /\ UNCHANGED <<preferred_free_day, prefer_consecutive, scored, recommended, pc>>
    /\ UNCHANGED genVars
    /\ UNCHANGED pairVars

ScoreNext == Score \/ Recommend \/ ShowAlternatives

ScoreSpec == ScoreInit /\ [][ScoreNext]_vars

----------------------------------------------------------------------------
(* Properties of generate_schedules *)

RECURSIVE sum_credits(_)
sum_credits(sched) ==
    IF sched = <<>> THEN 0 ELSE course_credits(Head(sched)) + sum_credits(Tail(sched))

\* the schedules that exist in a state: the results so far and the one under construction
all_schedules == {schedules[k] : k \in 1..Len(schedules)} \cup {schedule}

conflict_free(sched) ==
    \A a, b \in 1..Len(sched) : a # b => ~check_time_conflict(sched[a], sched[b])

\* C1: no schedule of the result list, and no schedule under construction, holds two
\* distinct members for which check_time_conflict is true.
C1_NoConflictInSchedules == \A s \in all_schedules : conflict_free(s)

\* C1 witness: generate_schedules has returned, the pool held two courses that
\* conflict, and each of them is in a returned schedule.
C1_Witness ==
    /\ pc = "done"
    /\ Len(courses_list) = 2
    /\ check_time_conflict(courses_list[1], courses_list[2])
    /\ \A c \in 1..2 : \E k \in 1..Len(schedules) : schedules[k] = <<courses_list[c]>>

\* C2 as stated: every returned schedule sums to at most max_credits, and so does the
\* schedule under construction at every step of the walk.
C2_Original ==
    /\ \A k \in 1..Len(schedules) : sum_credits(schedules[k]) <= max_credits
    /\ pc = "walk" => sum_credits(schedule) <= max_credits

\* C2 amended: every schedule of the result list sums to at most max_credits; the
\* running total is the sum of the credits of the accepted courses; and at every step
\* of the walk that sum is at most max_credits once a course has been accepted or
\* when max_credits is not negative (with a negative max_credits the walk starts at
\* total 0, above the budget, and accepts nothing).
C2_CreditBound ==
    /\ \A k \in 1..Len(schedules) : sum_credits(schedules[k]) <= max_credits
    /\ pc = "walk" => total_credits = sum_credits(schedule)
    /\ (pc = "walk" /\ (schedule # <<>> \/ max_credits >= 0))
           => sum_credits(schedule) <= max_credits

\* C2 witness: a walk is over in which a course was accepted, the budget is used in
\* full and a course of positive credits was turned away.
C2_Witness ==
    /\ pc = "walk"
    /\ i > Len(courses_list)
    /\ schedule # <<>>
    /\ sum_credits(schedule) = max_credits
    /\ \E k \in 1..Len(courses_list) :
          /\ course_credits(courses_list[k]) > 0
          /\ \A m \in 1..Len(schedule) : schedule[m] # courses_list[k]
          /\ ~conflicts_with_schedule(courses_list[k], schedule)

\* the (code, section) pairs of a schedule as a bag: what two schedules share exactly
\* when their sorted collections of pairs are equal
key_bag(sched) ==
    LET pairs == identity_pairs(sched)
    IN  [p \in {pairs[k] : k \in 1..Len(pairs)} |->
            Cardinality({k \in 1..Len(pairs) : pairs[k] = p})]

\* C3: the result list never holds two schedules with the same collection of
\* (code, section) pairs.
C3_NoDuplicateKeys ==
    \A a, b \in 1..Len(schedules) : a # b => key_bag(schedules[a]) # key_bag(schedules[b])

\* C3 witness: an attempt has ended with a schedule whose members were accepted in
\* another order than those of a schedule already in the result list.
C3_Witness ==
    /\ pc = "loop"
    /\ attempts > 0
    /\ Len(schedule) > 1
    /\ \E k \in 1..Len(schedules) :
          /\ schedules[k] # schedule
          /\ key_bag(schedules[k]) = key_bag(schedule)

\* C4: under the loop's own scheduling generate_schedules returns; it never makes
\* more than max_schedules * 10 attempts nor collects more than max_schedules
\* schedules; an attempt starts only while fewer than max_schedules schedules are
\* collected and attempts are left; and once either limit is reached the next step
\* is the return. (max_schedules is a count: 0 or more.)
C4_Terminates ==
    /\ <>(pc = "done")
    /\ [](attempts <= max_schedules * AttemptFactor /\ Len(schedules) <= max_schedules)
    /\ [][attempts' # attempts =>
            /\ attempts' = attempts + 1
            /\ Len(schedules) < max_schedules
            /\ attempts < max_schedules * AttemptFactor]_vars
    /\ [][(/\ pc = "loop"
           /\ (Len(schedules) >= max_schedules \/ attempts >= max_schedules * AttemptFactor))
            => pc' = "done"]_vars

\* C4 witness: generate_schedules has returned nothing from a pool that is not empty,
\* after using up all of its max_schedules * 10 attempts.
C4_Witness ==
    /\ pc = "done"
    /\ max_schedules > 0
    /\ courses_list # <<>>
    /\ schedules = <<>>
    /\ attempts = max_schedules * AttemptFactor

\* C4 second case: generate_schedules has returned max_schedules schedules before
\* the attempts ran out.
C4_FullBeforeBudget ==
    /\ pc = "done"
    /\ max_schedules > 1
    /\ Len(schedules) = max_schedules
    /\ attempts < max_schedules * AttemptFactor

\* C5 as stated: with max_credits <= 0 no course is ever accepted.
C5_Original == max_credits <= 0 => (schedule = <<>> /\ schedules = <<>>)

\* C5 amended: with a negative max_credits no course is ever accepted; with
\* max_credits = 0 no course of positive credits is accepted, and a course worth 0
\* credits (or with no credit value) is accepted as any other budget would accept it.
C5_NonPositiveBudget ==
    /\ max_credits < 0 => (schedule = <<>> /\ schedules = <<>>)
    /\ max_credits = 0 => \A s \in all_schedules : \A k \in 1..Len(s) : course_credits(s[k]) = 0

\* C5 witness: generate_schedules has returned with max_credits = 0 from a pool that
\* holds a course of positive credits and a course of 0 credits, and returned the
\* latter alone.
C5_Witness ==
    /\ pc = "done"
    /\ max_credits = 0
    /\ Len(courses_list) = 2
    /\ \E a, b \in 1..2 :
          /\ course_credits(courses_list[a]) > 0
          /\ course_credits(courses_list[b]) = 0
          /\ schedules = << <<courses_list[b]>> >>

----------------------------------------------------------------------------
(* Properties of check_time_conflict *)

\* C6: check_time_conflict(A, B) is true exactly when some interval of A and some
\* interval of B are on the same day and not (a.end <= b.start or b.end <= a.start).
C6_ConflictIffOverlap ==
    conflict # <<>> =>
        LET s1 == get_all_time_slots(course1)
            s2 == get_all_time_slots(course2)
        IN  conflict[1] =
              (\E a \in 1..Len(s1), b \in 1..Len(s2) :
                  /\ s1[a][1] = s2[b][1]
                  /\ ~(s1[a][3] <= s2[b][2] \/ s2[b][3] <= s1[a][2]))

\* C6 witness: the call has answered false for two courses with one interval each,
\* on the same day, the first ending when the second starts.
C6_Witness ==
    /\ conflict = <<FALSE>>
    /\ Len(get_all_time_slots(course1)) = 1
    /\ Len(get_all_time_slots(course2)) = 1
    /\ get_all_time_slots(course1)[1][1] = get_all_time_slots(course2)[1][1]
    /\ get_all_time_slots(course1)[1][3] = get_all_time_slots(course2)[1][2]

\* C7: check_time_conflict(A, B) = check_time_conflict(B, A).
C7_ConflictSymmetric ==
    conflict # <<>> => conflict[1] = check_time_conflict(course2, course1)

\* C7 witness: the call has answered true for two courses with different numbers of
\* intervals, the hit not being on the first pair of intervals.
C7_Witness ==
    /\ conflict = <<TRUE>>
    /\ Len(get_all_time_slots(course1)) = 1
    /\ Len(get_all_time_slots(course2)) = 2
    /\ ~overlaps(get_all_time_slots(course1)[1], get_all_time_slots(course2)[1])

\* C7 second case: a course with no interval, against a course with two
C7_WitnessNoInterval ==
    /\ conflict = <<FALSE>>
    /\ get_all_time_slots(course1) = <<>>
    /\ Len(get_all_time_slots(course2)) = 2

----------------------------------------------------------------------------
(* Properties of calculate_schedule_score and recommend_schedule *)

score_of(k) == calculate_schedule_score(schedules[k], preferred_free_day, prefer_consecutive)

\* C8: for a list that is not empty recommend_schedule returns the first schedule of
\* the list whose score is the maximum over the list, and that score.
C8_FirstMaximum ==
    (recommended # <<>> /\ schedules # <<>>) =>
        LET scores == [j \in 1..Len(schedules) |-> score_of(j)]
        IN  \E k \in 1..Len(schedules) :
              /\ recommended[1].best_schedule = <<schedules[k]>>
              /\ recommended[1].best_score = <<scores[k]>>
              /\ \A j \in 1..Len(schedules) : scores[j] <= scores[k]
              /\ \A j \in 1..(k - 1) : scores[j] < scores[k]

\* C8 witness: recommend_schedule has answered for a list of two different schedules
\* with equal scores.
C8_Witness ==
    /\ recommended # <<>>
    /\ Len(schedules) = 2
    /\ schedules[1] # schedules[2]
    /\ score_of(1) = score_of(2)
    /\ recommended[1].best_schedule = <<schedules[1]>>

\* C9 as stated: for the empty list recommend_schedule returns None and 0.0.
C9_Original ==
    (recommended # <<>> /\ schedules = <<>>) =>
        (recommended[1].best_schedule = <<>> /\ recommended[1].best_score = <<0>>)

\* C9 amended: for the empty list recommend_schedule returns the empty list [] (an
\* empty schedule, not None) and the score 0.0, whatever the preference.
C9_EmptyList ==
    (recommended # <<>> /\ schedules = <<>>) =>
        (recommended[1].best_schedule = << <<>> >> /\ recommended[1].best_score = <<0>>)

\* C9 witness: recommend_schedule has answered for the empty list, with a free day
\* and the consecutive preference set.
C9_Witness ==
    /\ recommended # <<>>
    /\ schedules = <<>>
    /\ preferred_free_day # ""
    /\ prefer_consecutive

\* the credit term of a computed score: the score less its three other terms
credit_part(k) ==
    scored[1].score
      - free_day_term(schedules[k], preferred_free_day)
      - consecutive_term(schedules[k], prefer_consecutive)
      - spread_term(schedules[k])

\* C10 as stated: the credit term is negative whenever the total exceeds max_credits;
\* otherwise it is zero below the lower band, positive in the lower sub-band and
\* strictly higher in the upper sub-band.
C10_Original ==
    (scored # <<>> /\ schedules[scored[1].k] # <<>>) =>
        LET k == scored[1].k
            total == sum_credits(schedules[k])
        IN  /\ total > max_credits => credit_part(k) < 0
            /\ (total <= max_credits /\ total < LowerBandLow) => credit_part(k) = 0
            /\ (total <= max_credits /\ LowerBandLow <= total /\ total < UpperBandLow)
                  => (credit_part(k) > 0 /\ credit_part(k) < UpperBandReward)
            /\ (total <= max_credits /\ UpperBandLow <= total /\ total <= UpperBandHigh)
                  => credit_part(k) = UpperBandReward

\* every slot of a schedule read off the parts of the time cells: <<day, start, end>>
\* in minutes, for the parts that parse
RECURSIVE parts_of(_)
parts_of(sched) ==
    IF sched = <<>> THEN <<>>
    ELSE SelectSeq(Head(sched).time, LAMBDA part : part.ok) \o parts_of(Tail(sched))

minute_of(h, m) == h * 60 + m

\* the slots of a day, as <<start, end>>
slots_on(sched, day) ==
    LET ps == SelectSeq(parts_of(sched), LAMBDA part : part.day = day)
    IN  [n \in 1..Len(ps) |-> <<minute_of(ps[n].sh, ps[n].sm), minute_of(ps[n].eh, ps[n].em)>>]

\* the place of slot a of `times` in start-time order (ties by end time, then by position)
place(times, a) ==
    1 + Cardinality({c \in 1..Len(times) :
            \/ times[c][1] < times[a][1]
            \/ (times[c][1] = times[a][1] /\ times[c][2] < times[a][2])
            \/ (times[c] = times[a] /\ c < a)})

\* the pairs of slots of a day that are neighbours in start-time order, the earlier
\* one ending exactly when the later one starts
adjacent_pairs(times) ==
    {ab \in (1..Len(times)) \X (1..Len(times)) :
        /\ place(times, ab[2]) = place(times, ab[1]) + 1
        /\ times[ab[1]][2] = times[ab[2]][1]}

RECURSIVE adjacent_pairs_over(_, _)
adjacent_pairs_over(sched, days) ==
    IF days = {} THEN 0
    ELSE LET d == CHOOSE x \in days : TRUE
         IN  Cardinality(adjacent_pairs(slots_on(sched, d)))
               + adjacent_pairs_over(sched, days \ {d})

AllDays == {Mon, Tue, Wed}

\* C11: for a schedule that is not empty, the score with prefer_consecutive set less
\* the score with it unset is ConsecutiveBonus times the number of pairs of intervals
\* that are neighbours in start-time order on one day with earlier.end = later.start.
C11_ConsecutiveDifference ==
    (scored # <<>> /\ schedules[scored[1].k] # <<>>) =>
        LET sched == schedules[scored[1].k]
            pairs == adjacent_pairs_over(sched, AllDays)
            other == calculate_schedule_score(sched, preferred_free_day, ~prefer_consecutive)
        IN  IF prefer_consecutive
            THEN scored[1].score - other = ConsecutiveBonus * pairs
            ELSE other - scored[1].score = ConsecutiveBonus * pairs

\* C11 witness: a score has been computed with prefer_consecutive set for a schedule
\* with a back-to-back pair on Monday (9:00-10:30, 10:30-12:00) and a third Monday
\* interval that starts one minute after the second ends: one pair counts.
C11_Witness ==
    /\ scored # <<>>
    /\ prefer_consecutive
    /\ LET sched == schedules[scored[1].k]
           mon == slots_on(sched, Mon)
       IN  /\ Len(mon) = 3
           /\ \E a, b, c \in 1..3 :
                 /\ mon[a] = <<540, 630>>
                 /\ mon[b] = <<630, 720>>
                 /\ mon[c][1] = 721
           /\ scored[1].score
                = calculate_schedule_score(sched, preferred_free_day, FALSE) + ConsecutiveBonus

\* whether a schedule has an interval on a day
meets_on(sched, day) == \E n \in 1..Len(parts_of(sched)) : parts_of(sched)[n].day = day

\* the three terms that C12 holds equal
same_other_terms(s, t) ==
    /\ credit_term(score_total_credits(s)) = credit_term(score_total_credits(t))
    /\ consecutive_term(s, prefer_consecutive) = consecutive_term(t, prefer_consecutive)
    /\ spread_term(s) = spread_term(t)

\* C12: with a preferred free day d, of two schedules that are not empty and agree
\* on the credit, consecutive and spread terms, the one with no interval on d scores
\* exactly FreeDayBonus more than the one with an interval on d, and FreeDayBonus is
\* larger than the bonus of one consecutive pair.
C12_FreeDayDominance ==
    (scored # <<>> /\ preferred_free_day # "") =>
        LET k == scored[1].k
        IN  \A j \in 1..Len(schedules) :
              (/\ schedules[k] # <<>>
               /\ schedules[j] # <<>>
               /\ same_other_terms(schedules[k], schedules[j])
               /\ ~meets_on(schedules[k], preferred_free_day)
               /\ meets_on(schedules[j], preferred_free_day))
              => /\ scored[1].score > score_of(j)
                 /\ scored[1].score - score_of(j) = FreeDayBonus
                 /\ FreeDayBonus > ConsecutiveBonus

\* C12 witness: with Tuesday preferred free, a score has been computed for a schedule
\* with nothing on Tuesday, next to a schedule of the list that meets on Tuesday and
\* agrees on the other three terms.
C12_Witness ==
    /\ scored # <<>>
    /\ preferred_free_day = Tue
    /\ Len(schedules) = 2
    /\ \E j \in 1..2 :
          /\ j # scored[1].k
          /\ schedules[scored[1].k] # <<>>
          /\ schedules[j] # <<>>
          /\ same_other_terms(schedules[scored[1].k], schedules[j])
          /\ ~meets_on(schedules[scored[1].k], Tue)
          /\ meets_on(schedules[j], Tue)

----------------------------------------------------------------------------
(* Properties of the alternatives view of app.py *)

\* a list generate_schedules can return under max_credits: schedules that are not
\* empty, free of conflicts, within the budget, with pairwise different keys
generated_list ==
    /\ \A k \in 1..Len(schedules) :
          /\ schedules[k] # <<>>
          /\ conflict_free(schedules[k])
          /\ sum_credits(schedules[k]) <= max_credits
    /\ \A a, b \in 1..Len(schedules) :
          a # b => key_bag(schedules[a]) # key_bag(schedules[b])

\* C13 as stated: for a generated list the alternatives shown are in non-increasing
\* order of score, none scores higher than the recommended schedule, and the
\* recommended schedule is not among them.
C13_Original ==
    (alternatives # <<>> /\ generated_list) =>
        /\ \A n \in 1..(Len(alternatives) - 1) :
              alternatives[n].score >= alternatives[n + 1].score
        /\ \A n \in 1..Len(alternatives) :
              alternatives[n].score <= recommended[1].best_score[1]
        /\ \A n \in 1..Len(alternatives) :
              alternatives[n].schedule # recommended[1].best_schedule[1]

\* what the view does hold to: the alternatives are schedules[1:] in the order of the
\* list, and none scores higher than the recommended schedule
C13_ListOrder ==
    alternatives # <<>> =>
        /\ \A n \in 1..Len(alternatives) :
              /\ alternatives[n].schedule = schedules[n + 1]
              /\ alternatives[n].score <= recommended[1].best_score[1]

----------------------------------------------------------------------------
(* Further properties of generate_schedules *)

\* a course none of whose time parts parses: it has zero intervals
no_interval(course) == \A n \in 1..Len(course.time) : ~course.time[n].ok

\* C14: a course with zero intervals conflicts with no course of the pool, in either
\* order; and the walk step that looks at such a course appends it and adds its
\* credits to total_credits exactly when total_credits + its credits <= max_credits,
\* whatever was accepted before, and otherwise leaves schedule and total_credits alone.
C14_NoIntervalCourse ==
    /\ [](\A a, b \in 1..Len(courses_list) :
            no_interval(courses_list[a]) =>
                /\ ~check_time_conflict(courses_list[a], courses_list[b])
                /\ ~check_time_conflict(courses_list[b], courses_list[a]))
    /\ [][(/\ pc = "walk"
           /\ i <= Len(courses_list)
           /\ i' = i + 1
           /\ no_interval(courses_list[i]))
          => IF total_credits + course_credits(courses_list[i]) <= max_credits
             THEN /\ schedule' = Append(schedule, courses_list[i])
                  /\ total_credits' = total_credits + course_credits(courses_list[i])
             ELSE /\ schedule' = schedule
                  /\ total_credits' = total_credits]_vars

\* C14 witness: a walk is over in which a course with zero intervals and positive
\* credits was accepted after a course that has intervals, and its credits are in
\* the running total.
C14_Witness ==
    /\ pc = "walk"
    /\ i > Len(courses_list)
    /\ Len(schedule) = 2
    /\ ~no_interval(schedule[1])
    /\ no_interval(schedule[2])
    /\ course_credits(schedule[2]) > 0
    /\ total_credits = course_credits(schedule[1]) + course_credits(schedule[2])

\* C14 second case: the course with zero intervals was accepted first and its
\* credits made the walk turn away a later course that conflicts with nothing
C14_WitnessCreditsCount ==
    /\ pc = "walk"
    /\ i > Len(courses_list)
    /\ Len(courses_list) = 2
    /\ schedule = <<courses_list[1]>>
    /\ no_interval(courses_list[1])
    /\ course_credits(courses_list[2]) <= max_credits

is_member(course, sched) == \E m \in 1..Len(sched) : sched[m] = course

\* C15: every schedule of the result list is not empty, and every course of the pool
\* that is not a member of it conflicts with a member or would push the total of
\* its credits above max_credits.
C15_NonEmptyAndMaximal ==
    \A k \in 1..Len(schedules) :
        /\ schedules[k] # <<>>
        /\ \A n \in 1..Len(courses_list) :
              ~is_member(courses_list[n], schedules[k]) =>
                  \/ \E m \in 1..Len(schedules[k]) :
                        check_time_conflict(courses_list[n], schedules[k][m])
                  \/ sum_credits(schedules[k]) + course_credits(courses_list[n]) > max_credits

\* C15 witness: generate_schedules has returned a schedule that leaves out a course
\* which conflicts with no member and would fit the budget on its own: it was
\* turned away for its credits and not tried again.
C15_Witness ==
    /\ pc = "done"
    /\ \E k \in 1..Len(schedules), n \in 1..Len(courses_list) :
          /\ ~is_member(courses_list[n], schedules[k])
          /\ \A m \in 1..Len(schedules[k]) :
                ~check_time_conflict(courses_list[n], schedules[k][m])
          /\ course_credits(courses_list[n]) > 0
          /\ course_credits(courses_list[n]) <= max_credits

====
